---- MODULE Spec2Model ----
(***************************************************************************)
(* Admission controller of the MediLens scanner: the useScanner hook of    *)
(* src/src/hooks/use-scanner.ts (lines 1-199), with its image queue, its   *)
(* single-flight flag isProcessingRef, the cooldown end kept in            *)
(* localStorage and the three effects (cooldown interval, queue trigger,   *)
(* results dwell).                                                         *)
(*                                                                         *)
(* Time is Date.now() in milliseconds, observed every ClockStep.  A timer   *)
(* fires at or after its due time.  A handler, the render it causes and    *)
(* the effects of that render are one action: React flushes the effects of *)
(* a render before it handles the next event.  The time a run spends in    *)
(* its two UI setTimeout calls and in the server call is not measured: a   *)
(* run settles and reaches its finally at any time after its dispatch.     *)
(***************************************************************************)
EXTENDS Integers, Sequences, FiniteSets, TLC

\* ------------------------------------------------------------------ bounds
Images == {"a", "b"}
MaxSubmit == 3
MaxTime == 16000
ClockStep == 6000
MaxRuns == 2
MaxLiveTime == 36000

\* --------------------------------------------------------------- constants
COOLDOWN_SECONDS == 15
RESULTS_DWELL_MS == 8000
TICK_MS == 1000

NoItem == "NoItem"
NoTimer == -1
NoTime == NoTimer
NoImage == "none"
Null == [kind |-> "null"]
NoError == "null"

VARIABLES
  state,           \* useState<InternalState>
  analysisResult,  \* useState<ForensicAnalysisResult | null>
  error,           \* useState<string | null>
  imageQueue,      \* useState<string[]>
  cooldownTime,    \* useState(0)
  isProcessing,    \* isProcessingRef.current
  storage,         \* localStorage item COOLDOWN_STORAGE_KEY: NoItem or decimal digits
  now,             \* Date.now()
  runs,            \* processQueue invocations that have not reached their finally
  resultsTimer,    \* due time of the results dwell setTimeout, or NoTimer
  cooldownTimer,   \* next due time of the cooldown setInterval, or NoTimer
  last,            \* history: the last operation and what it did
  submitted,       \* history: the images of the last accepted submit
  lastDone,        \* history: when the latest run completed, and whether restart came since
  abandoned,       \* history: how many of runs were in flight when restart was last called
  env,             \* process.env of the server: the names of the keys that are set
  pc,              \* where forensicAnalysisFlow stands
  drugMetadata,    \* what runAgentA resolved to
  agentB,          \* the promise of runAgentB
  agentC,          \* the promise of runAgentC
  flowResult,      \* how forensicAnalysisFlow settled
  trace            \* history: the stages invoked and settled, in order

hookVars == <<state, analysisResult, error, imageQueue, cooldownTime,
              isProcessing, storage, now, runs, resultsTimer, cooldownTimer,
              last, submitted, lastDone, abandoned>>
flowVars == <<env, pc, drugMetadata, agentB, agentC, flowResult, trace>>
vars == <<state, analysisResult, error, imageQueue, cooldownTime, isProcessing,
          storage, now, runs, resultsTimer, cooldownTimer, last, submitted,
          lastDone, abandoned, env, pc, drugMetadata, agentB, agentC,
          flowResult, trace>>

\* the keys forensicAnalysisFlow and its agents read from process.env
Keys == {"GROQ_API_KEY", "GEMINI_API_KEY", "GEMINI_API_KEY_A",
         "GEMINI_API_KEY_B", "GEMINI_API_KEY_C", "EXA_API_KEY"}

\* a promise: not created, pending at one of its awaits, rejected, fulfilled
NoPromise == [state |-> "none"]
NoValue == [kind |-> "none"]

\* ------------------------------------------------- number <-> decimal text
RECURSIVE toString(_)
\* Number.prototype.toString of a non-negative integer, as its decimal digits
toString(n) == IF n < 10 THEN <<n>> ELSE Append(toString(n \div 10), n % 10)

RECURSIVE parseDigits(_, _)
parseDigits(s, acc) ==
  IF s = <<>> THEN acc ELSE parseDigits(Tail(s), acc * 10 + Head(s))

\* parseInt(localStorage.getItem(KEY) || '0', 10)
parseIntOr0(item) == IF item = NoItem THEN 0 ELSE parseDigits(item, 0)

\* Math.ceil(x / d) for an integer x and d > 0
CeilDiv(x, d) == -((-x) \div d)

\* ------------------------------------------------------- controller record
\* The values a handler reads and writes, gathered in one record.
Ctl == [state |-> state, analysisResult |-> analysisResult, error |-> error,
        imageQueue |-> imageQueue, cooldownTime |-> cooldownTime,
        isProcessing |-> isProcessing, storage |-> storage, runs |-> runs,
        dispatched |-> NoImage, accepted |-> FALSE, stale |-> FALSE]

SeqsUpTo(S, n) == UNION {[1..k -> S] : k \in 0..n}

RemoveAt(s, i) == SubSeq(s, 1, i - 1) \o SubSeq(s, i + 1, Len(s))

\* processQueue taking the image at the back of the queue
processQueue_TakesLast(c, t) ==
  IF c.isProcessing \/ Len(c.imageQueue) = 0
  THEN c
  ELSE IF t < parseIntOr0(c.storage)
  THEN [c EXCEPT !.state = "cooldown"]
  ELSE [c EXCEPT !.isProcessing = TRUE,
                 !.imageQueue = SubSeq(c.imageQueue, 1, Len(c.imageQueue) - 1),
                 !.analysisResult = Null,
                 !.error = NoError,
                 !.state = "analyzing",
                 !.runs = Append(c.runs, c.imageQueue[Len(c.imageQueue)]),
                 !.dispatched = c.imageQueue[Len(c.imageQueue)]]

\* processQueue without the check of the stored cooldown end
processQueue_NoCooldownCheck(c, t) ==
  IF c.isProcessing \/ Len(c.imageQueue) = 0
  THEN c
  ELSE [c EXCEPT !.isProcessing = TRUE,
                 !.imageQueue = Tail(c.imageQueue),
                 !.analysisResult = Null,
                 !.error = NoError,
                 !.state = "analyzing",
                 !.runs = Append(c.runs, Head(c.imageQueue)),
                 !.dispatched = Head(c.imageQueue)]

\* ----------------------------------------------------------- processQueue
\* processQueue up to its first await: the guard, the cooldown check against
\* the stored end time, and the dispatch of the head of the queue.
processQueue(c, t) ==
  IF c.isProcessing \/ Len(c.imageQueue) = 0
  THEN c
  ELSE IF t < parseIntOr0(c.storage)
  THEN [c EXCEPT !.state = "cooldown"]
  ELSE [c EXCEPT !.isProcessing = TRUE,
                 !.imageQueue = Tail(c.imageQueue),
                 !.analysisResult = Null,
                 !.error = NoError,
                 !.state = "analyzing",
                 !.runs = Append(c.runs, Head(c.imageQueue)),
                 !.dispatched = Head(c.imageQueue)]

\* the trigger effect running only for a render a handler caused, not for the
\* one the cooldown interval caused
queueTrigger_HandlerOnly(c, t) ==
  IF c.state = "idle" /\ Len(c.imageQueue) > 0 /\ c.accepted
  THEN processQueue(c, t) ELSE c

\* the effect that calls processQueue when the state is idle and images wait
queueTrigger(c, t) ==
  IF c.state = "idle" /\ Len(c.imageQueue) > 0 THEN processQueue(c, t) ELSE c

\* a run that throws puts its image back in front of the queue
runFinally_RequeuesOnFailure(c, i, outcome, t) ==
  LET d == IF outcome = "throw"
           THEN [c EXCEPT !.error = "failed",
                          !.imageQueue = <<c.runs[i]>> \o @]
           ELSE [c EXCEPT !.analysisResult =
                   [kind |-> "result", image |-> c.runs[i],
                    analysisError |-> (outcome = "analysisError")]]
  IN [d EXCEPT !.storage = toString(t + COOLDOWN_SECONDS * 1000),
               !.state = "results",
               !.runs = RemoveAt(c.runs, i)]

\* the cooldown armed after the result is set instead of in the finally, so
\* that a run that throws arms nothing
runFinally_ArmsOnSuccessOnly(c, i, outcome, t) ==
  IF outcome = "throw"
  THEN [c EXCEPT !.error = "failed", !.state = "results",
                 !.runs = RemoveAt(c.runs, i)]
  ELSE [c EXCEPT !.analysisResult =
                   [kind |-> "result", image |-> c.runs[i],
                    analysisError |-> (outcome = "analysisError")],
                 !.storage = toString(t + COOLDOWN_SECONDS * 1000),
                 !.state = "results",
                 !.runs = RemoveAt(c.runs, i)]

\* the rest of processQueue once forensicAnalysisFlow has settled: it returned
\* a result (with or without analysisError) or threw; then the finally
runFinally(c, i, outcome, t) ==
  LET d == IF outcome = "throw"
           THEN [c EXCEPT !.error = "failed"]
           ELSE [c EXCEPT !.analysisResult =
                   [kind |-> "result", image |-> c.runs[i],
                    analysisError |-> (outcome = "analysisError")]]
  IN [d EXCEPT !.storage = toString(t + COOLDOWN_SECONDS * 1000),
               !.state = "results",
               !.runs = RemoveAt(c.runs, i)]

\* ------------------------------------------------------------ the effects
\* callback of the cooldown setInterval
cooldownTick(c, t) ==
  LET cooldownEndTime == parseIntOr0(c.storage)
      remaining == CeilDiv(cooldownEndTime - t, 1000)
  IN IF remaining > 0
     THEN [c EXCEPT !.cooldownTime = remaining]
     ELSE [c EXCEPT !.cooldownTime = 0, !.storage = NoItem, !.state = "idle"]

\* a dwell callback that forgets to release the lock
resultsDwell_KeepsLock(c) == [c EXCEPT !.state = "cooldown"]

\* callback of the results dwell setTimeout
resultsDwell(c) == [c EXCEPT !.isProcessing = FALSE, !.state = "cooldown"]

\* ----------------------------------------------------------- the handlers
\* startScan guarded by the lock only
startScan_LockOnly(c) ==
  IF c.isProcessing
  THEN c
  ELSE [c EXCEPT !.state = "scanning", !.analysisResult = Null,
                 !.error = NoError, !.imageQueue = <<>>, !.accepted = TRUE]

startScan(c) ==
  IF c.isProcessing \/ c.state = "cooldown"
  THEN c
  ELSE [c EXCEPT !.state = "scanning", !.analysisResult = Null,
                 !.error = NoError, !.imageQueue = <<>>, !.accepted = TRUE]

\* handleImageCapture guarded by the lock only
handleImageCapture_LockOnly(c, imageDataUrl) ==
  IF c.isProcessing
  THEN c
  ELSE [c EXCEPT !.imageQueue = <<imageDataUrl>>, !.state = "idle",
                 !.accepted = TRUE]

handleImageCapture(c, imageDataUrl) ==
  IF c.state = "cooldown" \/ c.isProcessing
  THEN c
  ELSE [c EXCEPT !.imageQueue = <<imageDataUrl>>, !.state = "idle",
                 !.accepted = TRUE]

\* handleMultipleImages without the lock in its guard
handleMultipleImages_NoLock(c, imageDataUrls) ==
  IF c.state = "cooldown" \/ Len(imageDataUrls) = 0
  THEN c
  ELSE [c EXCEPT !.imageQueue = imageDataUrls, !.state = "idle",
                 !.accepted = TRUE]

handleMultipleImages(c, imageDataUrls) ==
  IF c.state = "cooldown" \/ c.isProcessing \/ Len(imageDataUrls) = 0
  THEN c
  ELSE [c EXCEPT !.imageQueue = imageDataUrls, !.state = "idle",
                 !.accepted = TRUE]

\* restart that returns at once when the state is already idle
restart_SkipsWhenIdle(c) ==
  IF c.state = "idle"
  THEN c
  ELSE [c EXCEPT !.state = "idle", !.analysisResult = Null,
                 !.error = NoError, !.imageQueue = <<>>,
                 !.isProcessing = FALSE, !.storage = NoItem,
                 !.cooldownTime = 0, !.accepted = TRUE]

\* restart leaving the stored cooldown end in place
restart_KeepsStorage(c) ==
  [c EXCEPT !.state = "idle", !.analysisResult = Null, !.error = NoError,
            !.imageQueue = <<>>, !.isProcessing = FALSE,
            !.cooldownTime = 0, !.accepted = TRUE]

restart(c) ==
  [c EXCEPT !.state = "idle", !.analysisResult = Null, !.error = NoError,
            !.imageQueue = <<>>, !.isProcessing = FALSE, !.storage = NoItem,
            !.cooldownTime = 0, !.accepted = TRUE]

\* a load of the page that starts from an empty store
mount_ForgetsCooldown(c) ==
  [c EXCEPT !.state = "idle", !.analysisResult = Null, !.error = NoError,
            !.imageQueue = <<>>, !.cooldownTime = 0, !.isProcessing = FALSE,
            !.runs = <<>>, !.accepted = TRUE, !.storage = NoItem]

\* a fresh mount of the hook: every useState and useRef at its initial value,
\* the localStorage item as the earlier process left it
mount(c) ==
  [c EXCEPT !.state = "idle", !.analysisResult = Null, !.error = NoError,
            !.imageQueue = <<>>, !.cooldownTime = 0, !.isProcessing = FALSE,
            !.runs = <<>>, !.accepted = TRUE]

\* ------------------------------------------------------------------ timers
\* the results effect arms its timeout when the state becomes results and its
\* cleanup clears it when the state changes
resultsTimerAfter(c) ==
  IF c.state # "results" THEN NoTimer
  ELSE IF state = "results" /\ resultsTimer # NoTimer THEN resultsTimer
  ELSE now + RESULTS_DWELL_MS

\* the cooldown effect starts its interval when the state becomes cooldown
\* and clears it when the state changes; a firing moves the next due time on
cooldownTimerAfter(c, fired) ==
  IF c.state # "cooldown" THEN NoTimer
  ELSE IF state = "cooldown" /\ cooldownTimer # NoTimer /\ ~fired
       THEN cooldownTimer
  ELSE now + TICK_MS

\* ------------------------------------------------------------------ commit
Clears == {"startScan", "restart", "reload"}
Submits == {"handleImageCapture", "handleMultipleImages"}

Commit(c, op, arg) ==
  /\ state' = c.state
  /\ analysisResult' = c.analysisResult
  /\ error' = c.error
  /\ imageQueue' = c.imageQueue
  /\ cooldownTime' = c.cooldownTime
  /\ isProcessing' = c.isProcessing
  /\ storage' = c.storage
  /\ runs' = c.runs
  /\ now' = now
  /\ resultsTimer' = IF op = "reload" THEN NoTimer ELSE resultsTimerAfter(c)
  /\ cooldownTimer' = IF op = "reload" THEN NoTimer
                      ELSE cooldownTimerAfter(c, op = "cooldownTick")
  /\ last' = [op |-> op, n |-> Len(arg), accepted |-> c.accepted,
              dispatched |-> c.dispatched, from |-> state,
              stale |-> c.stale,
              repeat |-> (op = "restart" /\ last.op = "restart")]
  /\ submitted' = IF op \in Clears /\ c.accepted THEN <<>>
                  ELSE IF op \in Submits /\ c.accepted THEN arg
                  ELSE submitted
  /\ lastDone' = IF op = "runFinally" THEN [at |-> now, restarted |-> FALSE]
                 ELSE IF op = "restart" /\ lastDone.at # NoTime
                 THEN [lastDone EXCEPT !.restarted = TRUE]
                 ELSE lastDone
  /\ abandoned' = IF op = "restart" THEN Len(c.runs)
                  ELSE IF op = "reload" THEN 0
                  ELSE IF c.stale THEN abandoned - 1
                  ELSE abandoned
  /\ UNCHANGED flowVars

\* ----------------------------------------------------------------- actions
\* no call of forensicAnalysisFlow made yet
FlowIdle ==
  /\ pc = "idle"
  /\ drugMetadata = NoValue
  /\ agentB = NoPromise
  /\ agentC = NoPromise
  /\ flowResult = NoValue
  /\ trace = <<>>

InitHook ==
  /\ state = "idle"
  /\ analysisResult = Null
  /\ error = NoError
  /\ imageQueue = <<>>
  /\ cooldownTime = 0
  /\ isProcessing = FALSE
  /\ storage = NoItem
  /\ now = 0
  /\ runs = <<>>
  /\ resultsTimer = NoTimer
  /\ cooldownTimer = NoTimer
  /\ last = [op |-> "init", n |-> 0, accepted |-> FALSE,
             dispatched |-> NoImage, from |-> "idle", stale |-> FALSE,
             repeat |-> FALSE]
  /\ submitted = <<>>
  /\ lastDone = [at |-> NoTime, restarted |-> FALSE]
  /\ abandoned = 0

Init == InitHook /\ env = Keys /\ FlowIdle

StartScan == Commit(queueTrigger(startScan(Ctl), now), "startScan", <<>>)

HandleImageCapture ==
  \E img \in Images :
    Commit(queueTrigger(handleImageCapture(Ctl, img), now),
           "handleImageCapture", <<img>>)

HandleMultipleImages ==
  \E imgs \in SeqsUpTo(Images, MaxSubmit) :
    Commit(queueTrigger(handleMultipleImages(Ctl, imgs), now),
           "handleMultipleImages", imgs)

\* restart; the number of runs left behind by restarts is capped at MaxRuns
Restart ==
  /\ Len(runs) < MaxRuns
  /\ Commit(queueTrigger(restart(Ctl), now), "restart", <<>>)

\* a run in flight settles and runs to the end of its finally block; the
\* runs a restart left behind are the first `abandoned` of runs
RunFinally ==
  \E i \in 1..Len(runs), outcome \in {"ok", "analysisError", "throw"} :
    Commit([queueTrigger(runFinally(Ctl, i, outcome, now), now)
              EXCEPT !.stale = (i <= abandoned)],
           "runFinally", <<>>)

ResultsDwell ==
  /\ state = "results"
  /\ resultsTimer # NoTimer
  /\ now >= resultsTimer
  /\ Commit(queueTrigger(resultsDwell(Ctl), now), "resultsDwell", <<>>)

CooldownTick ==
  /\ state = "cooldown"
  /\ cooldownTimer # NoTimer
  /\ now >= cooldownTimer
  /\ Commit(queueTrigger(cooldownTick(Ctl, now), now), "cooldownTick", <<>>)

\* the page is loaded again: memory is lost, localStorage is kept
Reload == Commit(queueTrigger(mount(Ctl), now), "reload", <<>>)

\* the clock moves on
Advance ==
  /\ now < MaxTime
  /\ now' = now + ClockStep
  /\ last' = [op |-> "advance", n |-> 0, accepted |-> FALSE,
              dispatched |-> NoImage, from |-> state, stale |-> FALSE,
              repeat |-> FALSE]
  /\ UNCHANGED <<state, analysisResult, error, imageQueue, cooldownTime,
                 isProcessing, storage, runs, resultsTimer, cooldownTimer,
                 submitted, lastDone, abandoned>>
  /\ UNCHANGED flowVars

Next ==
  \/ StartScan
  \/ HandleImageCapture
  \/ HandleMultipleImages
  \/ Restart
  \/ RunFinally
  \/ ResultsDwell
  \/ CooldownTick
  \/ Reload
  \/ Advance

Spec == Init /\ [][Next]_vars

TypeOK ==
  /\ state \in {"idle", "scanning", "analyzing", "results", "cooldown"}
  /\ isProcessing \in BOOLEAN
  /\ Len(runs) <= MaxRuns
  /\ Len(imageQueue) <= MaxSubmit
  /\ cooldownTime \in 0..COOLDOWN_SECONDS
  /\ abandoned \in 0..Len(runs)

\* ============================================================ orchestrator
\* forensicAnalysisFlow, the call processQueue awaits.  One call is followed
\* from its entry to its return; each action is the code that runs between
\* two awaits (the continuation of the promise that settles, with the
\* microtasks it schedules).
CoreKeys == {"imprint", "color", "shape", "generic", "source"}
Factors == CoreKeys \ {"source"}
Verdicts == {"Authentic", "Inconclusive", "Counterfeit Risk"}
Statuses == {"match", "conflict", "omission"}
SchemaKeys == {"score", "verdict", "imprint", "sources", "coreResults",
               "timestamp", "scanId", "primaryUses", "howItWorks",
               "commonIndications", "safetyDisclaimer", "analysisError"}
DefaultMessage == "An unexpected error occurred during multi-agent analysis."

\* process.env.<name> || process.env.GEMINI_API_KEY
geminiKey(name) == name \in env \/ "GEMINI_API_KEY" \in env

\* { ...a, ...b }
Spread(a, b) ==
  [k \in DOMAIN a \cup DOMAIN b |-> IF k \in DOMAIN b THEN b[k] ELSE a[k]]

\* ------------------------------------------------ what the services answer
\* Agent A: an OCR result, no output, or an exception of generate
OCRResults == {[imprint |-> ""], [imprint |-> "M357"]}
AgentAOutcomes ==
  {[kind |-> "output", output |-> o] : o \in OCRResults}
    \cup {[kind |-> "null"], [kind |-> "throw"]}

\* Exa: a list of results, or an exception
ExaOutcomes ==
  {[kind |-> "results", results |-> r] : r \in {<<>>, <<"dailymed">>}}
    \cup {[kind |-> "throw"]}

\* Gemini B: an interpretation, no output, or an exception
AgentBOutcomes ==
  {[kind |-> "output", output |-> [uses |-> "analgesic"]],
   [kind |-> "null"], [kind |-> "throw"]}

\* Gemini C: a visual report, no output, or an exception.  A report whose
\* qualityScore is outside the schema's min(0).max(100) is either refused by
\* the output validation of generate ("invalid") or handed on as it is,
\* depending on the library; runAgentC itself does not look at the number.
AgentCOutcomes ==
  {[kind |-> "output", output |-> [qualityScore |-> q]] : q \in {0, 100, 150}}
    \cup {[kind |-> "null"], [kind |-> "throw"], [kind |-> "invalid"]}

\* Groq: the JSON object of the answer.  Its score, verdict and factor
\* statuses are whatever the language model wrote.
coreResultsOf(st, src) ==
  [k \in CoreKeys |->
     IF k = "source" THEN [match |-> src]
     ELSE [match |-> (st[k] = "match"), status |-> st[k]]]
LlmCoreResults ==
  {coreResultsOf([k \in Factors |-> "match"], TRUE),
   coreResultsOf([k \in Factors |-> IF k = "imprint" THEN "conflict"
                                    ELSE "match"], TRUE),
   coreResultsOf([k \in Factors |-> "omission"], FALSE),
   coreResultsOf([k \in Factors |-> IF k = "color" THEN "unknown"
                                    ELSE "match"], TRUE)}
LlmScores == {-1, 0, 60, 65, 66, 85, 86, 100, 101}
LlmVerdicts == Verdicts \cup {"Fake"}
Reports ==
  {[score |-> s, verdict |-> v, coreResults |-> c] :
     s \in LlmScores, v \in LlmVerdicts, c \in LlmCoreResults}
    \cup {[verdict |-> "Authentic",
           coreResults |-> coreResultsOf([k \in Factors |-> "match"], TRUE)],
          [score |-> 100, verdict |-> "Authentic", confidence |-> "high",
           analysisError |-> "none found",
           coreResults |-> coreResultsOf([k \in Factors |-> "match"], TRUE)]}
GroqOutcomes ==
  {[kind |-> "content", content |-> r] : r \in Reports}
    \cup {[kind |-> "empty"], [kind |-> "notJson"],
          [kind |-> "throw", message |-> ""],
          [kind |-> "throw", message |-> "429 rate limit"]}

\* --------------------------------------------------------------- the flow
Flow == [pc |-> pc, drugMetadata |-> drugMetadata, agentB |-> agentB,
         agentC |-> agentC, flowResult |-> flowResult, trace |-> trace]

log(f, event) == [f EXCEPT !.trace = Append(@, event)]

pending(at) == [state |-> "pending", at |-> at]
rejected(message) == [state |-> "rejected", reason |-> message]
fulfilled(value) == [state |-> "fulfilled", value |-> value]

\* a schema whose factor status is any string
UnifiedAnalysisResultSchema_accepts_AnyStatus(r) ==
  /\ "score" \in DOMAIN r
  /\ "verdict" \in DOMAIN r /\ r.verdict \in Verdicts
  /\ "coreResults" \in DOMAIN r
  /\ \A k \in Factors : r.coreResults[k].match \in BOOLEAN
  /\ r.coreResults["source"].match \in BOOLEAN

\* UnifiedAnalysisResultSchema.safeParse(r).success
UnifiedAnalysisResultSchema_accepts(r) ==
  /\ "score" \in DOMAIN r
  /\ "verdict" \in DOMAIN r /\ r.verdict \in Verdicts
  /\ "coreResults" \in DOMAIN r
  /\ \A k \in Factors : /\ r.coreResults[k].match \in BOOLEAN
                        /\ r.coreResults[k].status \in Statuses
  /\ r.coreResults["source"].match \in BOOLEAN

\* the data UnifiedAnalysisResultSchema.parse returns: the keys of the schema
UnifiedAnalysisResultSchema_data(r) ==
  [k \in DOMAIN r \cap SchemaKeys |-> r[k]]

\* the object the catch block returns
errorObject(message) ==
  [score |-> 0, verdict |-> "Inconclusive", imprint |-> "N/A",
   analysisError |-> IF message = "" THEN DefaultMessage ELSE message,
   coreResults |-> [k \in CoreKeys |->
                      IF k = "source" THEN [match |-> FALSE]
                      ELSE [match |-> FALSE, status |-> "omission"]]]

\* the catch block rethrowing what it caught
catchBlock_Rethrows(f, message) ==
  log([f EXCEPT !.pc = "returned",
                !.flowResult = [kind |-> "throw", message |-> message]],
      "return")

\* catch (e) { return { ..., analysisError: e.message || "...", ... } }
catchBlock(f, message) ==
  log([f EXCEPT !.pc = "returned",
                !.flowResult = [kind |-> "value",
                                value |-> errorObject(message)]],
      "return")

\* runAgentB up to its first await
runAgentB_call(f) ==
  IF "EXA_API_KEY" \notin env
  THEN log(log([f EXCEPT !.agentB = rejected("Missing EXA_API_KEY.")], "B"),
           "B.fail")
  ELSE IF ~geminiKey("GEMINI_API_KEY_B")
  THEN log(log([f EXCEPT !.agentB = rejected("Missing GEMINI_API_KEY_B.")],
               "B"), "B.fail")
  ELSE log([f EXCEPT !.agentB = pending("exa")], "B")

\* runAgentC up to its await
runAgentC_call(f) ==
  IF ~geminiKey("GEMINI_API_KEY_C")
  THEN log(log([f EXCEPT !.agentC = rejected("Missing GEMINI_API_KEY_C.")],
               "C"), "C.fail")
  ELSE log([f EXCEPT !.agentC = pending("generate")], "C")

\* Promise.all going on to the synthesis as soon as one promise is fulfilled
promiseAll_Race(f) ==
  IF f.pc # "parallel" THEN f
  ELSE IF f.agentB.state = "rejected" THEN catchBlock(f, f.agentB.reason)
  ELSE IF f.agentC.state = "rejected" THEN catchBlock(f, f.agentC.reason)
  ELSE IF f.agentB.state = "fulfilled" \/ f.agentC.state = "fulfilled"
  THEN log([f EXCEPT !.pc = "synthesis"], "S")
  ELSE f

\* Promise.all that waits for both promises to settle and goes on to the
\* synthesis with what it has
promiseAll_Settled(f) ==
  IF f.pc # "parallel" THEN f
  ELSE IF f.agentB.state \in {"fulfilled", "rejected"}
          /\ f.agentC.state \in {"fulfilled", "rejected"}
  THEN log([f EXCEPT !.pc = "synthesis"], "S")
  ELSE f

\* await Promise.all([runAgentB(..), runAgentC(..)]) and the statements up to
\* the await of the Groq call: the first rejection is thrown into the catch
\* block, two fulfilments start the synthesis; a promise that settles after
\* the flow returned is not looked at
promiseAll(f) ==
  IF f.pc # "parallel" THEN f
  ELSE IF f.agentB.state = "rejected" THEN catchBlock(f, f.agentB.reason)
  ELSE IF f.agentC.state = "rejected" THEN catchBlock(f, f.agentC.reason)
  ELSE IF f.agentB.state = "fulfilled" /\ f.agentC.state = "fulfilled"
  THEN log([f EXCEPT !.pc = "synthesis"], "S")
  ELSE f

\* runAgentA returning the output of generate as it is, null included
afterAgentA_ReturnsNullOutput(f, outcome) ==
  IF outcome.kind \in {"output", "null"}
  THEN promiseAll(runAgentC_call(runAgentB_call(
         log([f EXCEPT !.pc = "parallel",
                       !.drugMetadata = IF outcome.kind = "output"
                                        THEN outcome.output ELSE Null],
             "A.ok"))))
  ELSE catchBlock(log(f, "A.fail"), "Agent A (Vision OCR) failed: generate")

\* forensicAnalysisFlow going on to the agents although runAgentA failed
afterAgentA_NoFailFast(f, outcome) ==
  promiseAll(runAgentC_call(runAgentB_call(
    log([f EXCEPT !.pc = "parallel",
                  !.drugMetadata = IF outcome.kind = "output"
                                   THEN outcome.output ELSE [imprint |-> ""]],
        IF outcome.kind = "output" THEN "A.ok" ELSE "A.fail"))))

\* runAgentA from its await on, and forensicAnalysisFlow up to Promise.all
afterAgentA(f, outcome) ==
  IF outcome.kind = "output"
  THEN promiseAll(runAgentC_call(runAgentB_call(
         log([f EXCEPT !.pc = "parallel", !.drugMetadata = outcome.output],
             "A.ok"))))
  ELSE catchBlock(log(f, "A.fail"),
                  IF outcome.kind = "null"
                  THEN "Agent A (Vision OCR) failed: Agent A failed to extract metadata."
                  ELSE "Agent A (Vision OCR) failed: generate")

\* forensicAnalysisFlow from its entry to the await of runAgentA
forensicAnalysisFlow(f) ==
  IF "GROQ_API_KEY" \notin env
  THEN catchBlock(f, "Missing GROQ_API_KEY.")
  ELSE IF ~geminiKey("GEMINI_API_KEY_A")
  THEN catchBlock(log(log(f, "A"), "A.fail"), "Missing GEMINI_API_KEY_A.")
  ELSE log([f EXCEPT !.pc = "agentA"], "A")

\* runAgentB from the await of exa.searchAndContents to the await of generate
afterExa(f, outcome) ==
  IF outcome.kind = "results"
  THEN [f EXCEPT !.agentB = [state |-> "pending", at |-> "generate",
                             results |-> outcome.results]]
  ELSE promiseAll(log([f EXCEPT !.agentB =
                         rejected("Agent B (Research) failed: exa")],
                      "B.fail"))

\* exaResults.results.map(r => ({ uri: r.url, title: r.title, tier: 1 }))
rawSourcesOf(results) ==
  [i \in 1..Len(results) |-> [uri |-> results[i], tier |-> 1]]

\* runAgentB from the await of aiB.generate on
afterAgentB(f, outcome) ==
  IF outcome.kind = "output"
  THEN promiseAll(log([f EXCEPT !.agentB =
                         fulfilled([interpreted |-> outcome.output,
                                    rawSources |->
                                      rawSourcesOf(f.agentB.results)])],
                      "B.ok"))
  ELSE promiseAll(log([f EXCEPT !.agentB = rejected(
                         IF outcome.kind = "null"
                         THEN "Agent B (Research) failed: Agent B (Research) failed to interpret data."
                         ELSE "Agent B (Research) failed: generate")],
                      "B.fail"))

\* runAgentC from the await of aiC.generate on
afterAgentC(f, outcome) ==
  IF outcome.kind = "output"
  THEN promiseAll(log([f EXCEPT !.agentC = fulfilled(outcome.output)],
                      "C.ok"))
  ELSE promiseAll(log([f EXCEPT !.agentC = rejected(
                         IF outcome.kind = "null"
                         THEN "Agent C (Forensic) failed: Agent C (Forensic) failed visual analysis."
                         ELSE IF outcome.kind = "invalid"
                         THEN "Agent C (Forensic) failed: Schema validation failed"
                         ELSE "Agent C (Forensic) failed: generate")],
                      "C.fail"))

\* the result object built from the parsed report: { ...parsed, <fields> }
resultOf(f, parsed) ==
  Spread(parsed,
         [timestamp |-> "toISOString", scanId |-> "scan_",
          imprint |-> IF f.drugMetadata.imprint = "" THEN "NONE"
                      ELSE f.drugMetadata.imprint,
          sources |-> f.agentB.value.rawSources,
          primaryUses |-> f.agentB.value.interpreted.uses,
          safetyDisclaimer |-> "Disclaimer",
          analysisError |-> NoError])

\* forensicAnalysisFlow from the await of the Groq call to its return
afterGroq(f, outcome) ==
  IF outcome.kind = "throw"
  THEN catchBlock(log(f, "S.fail"), outcome.message)
  ELSE IF outcome.kind = "empty"
  THEN catchBlock(log(f, "S.fail"), "Final synthesis failed on Groq.")
  ELSE IF outcome.kind = "notJson"
  THEN catchBlock(log(f, "S.fail"), "Unexpected token in JSON")
  ELSE IF ~UnifiedAnalysisResultSchema_accepts(resultOf(f, outcome.content))
  THEN catchBlock(log(f, "S.fail"), "ZodError")
  ELSE log(log([f EXCEPT !.pc = "returned",
                         !.flowResult =
                           [kind |-> "value",
                            value |-> UnifiedAnalysisResultSchema_data(
                                        resultOf(f, outcome.content))]],
               "S.ok"), "return")

\* ---------------------------------------------------- orchestrator actions
CommitFlow(f) ==
  /\ pc' = f.pc
  /\ drugMetadata' = f.drugMetadata
  /\ agentB' = f.agentB
  /\ agentC' = f.agentC
  /\ flowResult' = f.flowResult
  /\ trace' = f.trace
  /\ UNCHANGED <<hookVars, env>>

\* processQueue calls forensicAnalysisFlow
FlowCall ==
  /\ pc = "idle"
  /\ CommitFlow(forensicAnalysisFlow(Flow))

AgentAReturns ==
  /\ pc = "agentA"
  /\ \E outcome \in AgentAOutcomes : CommitFlow(afterAgentA(Flow, outcome))

ExaReturns ==
  /\ agentB.state = "pending"
  /\ agentB.at = "exa"
  /\ \E outcome \in ExaOutcomes : CommitFlow(afterExa(Flow, outcome))

AgentBReturns ==
  /\ agentB.state = "pending"
  /\ agentB.at = "generate"
  /\ \E outcome \in AgentBOutcomes : CommitFlow(afterAgentB(Flow, outcome))

AgentCReturns ==
  /\ agentC.state = "pending"
  /\ \E outcome \in AgentCOutcomes : CommitFlow(afterAgentC(Flow, outcome))

GroqReturns ==
  /\ pc = "synthesis"
  /\ \E outcome \in GroqOutcomes : CommitFlow(afterGroq(Flow, outcome))

NextFlow ==
  \/ FlowCall
  \/ AgentAReturns
  \/ ExaReturns
  \/ AgentBReturns
  \/ AgentCReturns
  \/ GroqReturns

\* one call of forensicAnalysisFlow on a server with any of the keys set
InitFlow == InitHook /\ env \in SUBSET Keys /\ FlowIdle

SpecFlow == InitFlow /\ [][NextFlow]_vars

\* where an event first stands in the trace, 0 if nowhere
RECURSIVE IndexFrom(_, _, _)
IndexFrom(s, e, i) ==
  IF i > Len(s) THEN 0 ELSE IF s[i] = e THEN i ELSE IndexFrom(s, e, i + 1)
Index(e) == IndexFrom(trace, e, 1)
Count(e) == Cardinality({i \in 1..Len(trace) : trace[i] = e})

TypeOKFlow ==
  /\ pc \in {"idle", "agentA", "parallel", "synthesis", "returned"}
  /\ agentB.state \in {"none", "pending", "rejected", "fulfilled"}
  /\ agentC.state \in {"none", "pending", "rejected", "fulfilled"}
  /\ flowResult.kind \in {"none", "value", "throw"}
  /\ (pc = "returned") = (flowResult.kind # "none")

\* ------------------------------------------------------------------ claims
CooldownMs == COOLDOWN_SECONDS * 1000
cooldownEnd == parseIntOr0(storage)
IsSuffix(s, t) ==
  /\ Len(s) <= Len(t)
  /\ s = SubSeq(t, Len(t) - Len(s) + 1, Len(t))

\* C1: single-flight -- in every reachable state at most one run
\* (forensicAnalysisFlow call made by processQueue) is in progress.
C1_SingleFlight == Len(runs) <= 1

C3_Fifo ==
  /\ [](/\ IsSuffix(imageQueue, submitted)
        /\ last.dispatched # NoImage
             => /\ Len(imageQueue) < Len(submitted)
                /\ last.dispatched = submitted[Len(submitted) - Len(imageQueue)])
  /\ [][last'.dispatched # NoImage
          => /\ runs' = Append(runs, last'.dispatched)
             /\ last'.op \notin Submits
                  => (imageQueue # <<>> /\ last'.dispatched = Head(imageQueue)
                      /\ imageQueue' = Tail(imageQueue))
             /\ last'.op \in Submits
                  => Len(imageQueue') = last'.n - 1]_vars

C3_Witness ==
  /\ last.op = "cooldownTick"
  /\ last.dispatched = "b"
  /\ submitted = <<"a", "b", "a">>
  /\ imageQueue = <<"a">>
  /\ runs = <<"b">>

\* C4: when a run completes, by a result or by a throw, the state becomes
\* results and the stored cooldown end becomes the completion time plus the
\* cooldown constant; a dispatch leaves no cooldown window active.
C4_CompletionArmsCooldown ==
  [][/\ last'.op = "runFinally"
          => (state' = "results" /\ storage' # NoItem
              /\ parseIntOr0(storage') = now + CooldownMs)
     /\ last'.dispatched # NoImage => ~(now' < parseIntOr0(storage'))]_vars

C4_Witness ==
  /\ last.op = "runFinally"
  /\ error = "failed"
  /\ analysisResult = Null
  /\ state = "results"
  /\ cooldownEnd = now + CooldownMs

\* C5 (as stated): after a run completes no run starts before the cooldown
\* duration has elapsed since that completion, whatever the caller does.
C5_NoRunBeforeCooldownElapsed ==
  last.dispatched # NoImage
    => (lastDone.at = NoTime \/ now >= lastDone.at + CooldownMs)

\* C5 (amended): after a run completes no run starts before the cooldown
\* duration has elapsed since that completion, unless restart was called
\* after that completion.
C5_NoRunBeforeCooldownUnlessRestart ==
  last.dispatched # NoImage
    => (lastDone.at = NoTime \/ lastDone.restarted
        \/ now >= lastDone.at + CooldownMs)

C5_Witness ==
  /\ last.dispatched # NoImage
  /\ lastDone.at # NoTime
  /\ ~lastDone.restarted
  /\ now >= lastDone.at + CooldownMs

\* C6: a submit issued in the cooldown state (a run has completed and the
\* countdown has not reached 0) is rejected -- the state stays cooldown, the
\* queue is unchanged and no run starts.
C6_SubmitInCooldownRejected ==
  [][(last'.op \in Submits /\ state = "cooldown")
       => (/\ state' = "cooldown"
           /\ imageQueue' = imageQueue
           /\ runs' = runs
           /\ last'.dispatched = NoImage)]_vars

C6_Witness ==
  /\ last.op \in Submits
  /\ last.from = "cooldown"
  /\ last.n > 0
  /\ state = "cooldown"
  /\ imageQueue # <<>>
  /\ lastDone.at # NoTime
  /\ now < cooldownEnd

\* C7: startScan moves idle to scanning, and changes nothing when a run is in
\* flight or a cooldown window is active (now < stored end), also when the
\* window was stored by an earlier process.
C7_StartScan ==
  [][last'.op = "startScan"
       => IF Len(runs) > 0 \/ now < cooldownEnd
          THEN /\ state' = state
               /\ imageQueue' = imageQueue
               /\ analysisResult' = analysisResult
               /\ error' = error
          ELSE state = "idle" => state' = "scanning"]_vars

\* C8: when the cooldown interval finds the cooldown expired, the controller
\* goes to analyzing for the head of the queue if the queue is non-empty,
\* with no caller action, and to idle if the queue is empty.
C8_CooldownExpiry ==
  [][(last'.op = "cooldownTick" /\ CeilDiv(cooldownEnd - now, 1000) <= 0)
       => IF imageQueue # <<>>
          THEN /\ state' = "analyzing"
               /\ last'.dispatched = Head(imageQueue)
               /\ runs' = Append(runs, Head(imageQueue))
               /\ imageQueue' = Tail(imageQueue)
          ELSE state' = "idle" /\ runs' = runs]_vars

C8_Witness ==
  /\ last.op = "cooldownTick"
  /\ last.from = "cooldown"
  /\ state = "analyzing"
  /\ last.dispatched = "a"
  /\ runs = <<"a">>

\* C9: restart issued while a run is executing is not accepted -- state,
\* queue, lock and stored cooldown window are unchanged.
C9_RestartWhileRunningRejected ==
  [][(last'.op = "restart" /\ Len(runs) > 0)
       => (/\ state' = state
           /\ imageQueue' = imageQueue
           /\ isProcessing' = isProcessing
           /\ storage' = storage)]_vars

\* C10: restart issued while no run is executing leaves the controller idle
\* with an empty queue, the lock released, no result, no error and no stored
\* cooldown window.
C10_RestartClears ==
  [][(last'.op = "restart" /\ Len(runs) = 0)
       => (/\ state' = "idle"
           /\ imageQueue' = <<>>
           /\ isProcessing' = FALSE
           /\ analysisResult' = Null
           /\ error' = NoError
           /\ storage' = NoItem
           /\ runs' = <<>>)]_vars

C10_Witness ==
  /\ last.op = "restart"
  /\ last.from = "results"
  /\ lastDone.at # NoTime
  /\ now < lastDone.at + CooldownMs
  /\ runs = <<>>
  /\ state = "idle"
  /\ storage = NoItem

\* C11: a run that was in flight when restart was called is discarded when it
\* completes later -- its completion sets neither result nor error and leaves
\* the controller state as it was (no move to results).
C11_StaleCompletionDiscarded ==
  [][(last'.op = "runFinally" /\ last'.stale)
       => (/\ state' = state
           /\ analysisResult' = analysisResult
           /\ error' = error)]_vars

\* C12: restart is idempotent -- a restart that directly follows a restart
\* leaves every variable of the controller as the first one left it: idle,
\* empty queue, no result, no error, no cooldown (none stored, none counted),
\* lock released, no timer armed, the runs in flight untouched.
C12_RestartIdempotent ==
  [][(last'.op = "restart" /\ last.op = "restart")
       => (/\ state' = "idle" /\ state = "idle"
           /\ imageQueue' = <<>> /\ imageQueue = <<>>
           /\ storage' = NoItem /\ storage = NoItem
           /\ cooldownTime' = 0 /\ cooldownTime = 0
           /\ UNCHANGED <<analysisResult, error, isProcessing, runs,
                          resultsTimer, cooldownTimer>>)]_vars

\* a second restart in succession, after a run had completed and armed the
\* cooldown that the first restart removed
C12_Witness ==
  /\ last.op = "restart"
  /\ last.repeat
  /\ state = "idle"
  /\ storage = NoItem
  /\ lastDone.restarted

\* the call ended in failure: an exception, or a result with analysisError
Failed == \/ flowResult.kind = "throw"
          \/ /\ flowResult.kind = "value"
             /\ flowResult.value.analysisError # NoError
\* the call returned a result without analysisError
Succeeded == /\ flowResult.kind = "value"
             /\ flowResult.value.analysisError = NoError

\* C13: within one run the extraction (Agent A) has completed before the
\* research (Agent B) and the inspection (Agent C) are invoked, and the
\* synthesis is not invoked before both of them have completed; B and C
\* complete in either order.
C13_StageOrder ==
  /\ (Index("B") # 0 \/ Index("C") # 0)
       => /\ Index("A.ok") # 0
          /\ Index("B") # 0 /\ Index("A.ok") < Index("B")
          /\ Index("C") # 0 /\ Index("A.ok") < Index("C")
  /\ Index("S") # 0
       => /\ Index("B.ok") # 0 /\ Index("B.ok") < Index("S")
          /\ Index("C.ok") # 0 /\ Index("C.ok") < Index("S")

\* the synthesis has begun after the inspection completed first and the
\* research second
C13_Witness ==
  /\ Index("S") # 0
  /\ Index("C.ok") < Index("B.ok")

\* C14: fail-fast -- when the extraction fails, research, inspection and
\* synthesis are never invoked and the run has ended in failure.
C14_ExtractionFailFast ==
  Index("A.fail") # 0
    => /\ Count("B") = 0 /\ agentB = NoPromise
       /\ Count("C") = 0 /\ agentC = NoPromise
       /\ Count("S") = 0
       /\ pc = "returned"
       /\ Failed

\* Agent A was called, its generate gave no output, and the run has ended
C14_Witness ==
  /\ trace = <<"A", "A.fail", "return">>
  /\ flowResult.kind = "value"
  /\ flowResult.value.analysisError =
       "Agent A (Vision OCR) failed: Agent A failed to extract metadata."

\* C15: when the research or the inspection fails the run ends in failure and
\* the synthesis is never invoked; the other stage is not cancelled (its
\* promise stays pending until its own service answers) and nothing of its
\* output is in the returned result.
C15_ParallelStageFailure ==
  /\ []((Index("B.fail") # 0 \/ Index("C.fail") # 0)
          => /\ Count("S") = 0
             /\ pc = "returned"
             /\ Failed
             /\ flowResult.kind = "value"
                  => DOMAIN flowResult.value
                       \cap {"sources", "primaryUses", "howItWorks",
                             "commonIndications"} = {})
  /\ [][/\ (agentB.state = "pending" /\ agentB' # agentB)
             => (agentB'.state = "pending"
                   \/ trace'[Len(trace) + 1] \in {"B.ok", "B.fail"})
        /\ (agentC.state = "pending" /\ agentC' # agentC)
             => trace'[Len(trace) + 1] \in {"C.ok", "C.fail"}]_vars

\* the research failed, the run returned its failure, and the inspection
\* completed after that
C15_Witness ==
  /\ Index("B.fail") # 0
  /\ Index("return") # 0
  /\ Index("return") < Index("C.ok")
  /\ Failed

\* C16: the Orchestrator never raises to the Admission Controller --
\* forensicAnalysisFlow settles by returning a value, and when a stage or a
\* configuration check failed the value carries the failure (analysisError).
C16_NeverRaises ==
  /\ flowResult.kind # "throw"
  /\ pc = "returned"
       => /\ flowResult.kind = "value"
          /\ Index("S.ok") = 0 => flowResult.value.analysisError # NoError

\* the synthesis answered with a report the schema rejects, and the flow
\* returned a value carrying that failure
C16_Witness ==
  /\ Index("S.fail") # 0
  /\ flowResult.kind = "value"
  /\ flowResult.value.analysisError = "ZodError"

\* C17: in every returned result failure and a populated score or verdict
\* are mutually exclusive -- a result with analysisError has no score, no
\* verdict and no factor results.
C17_FailureHasNoScore ==
  (flowResult.kind = "value" /\ flowResult.value.analysisError # NoError)
    => DOMAIN flowResult.value \cap {"score", "verdict", "coreResults"} = {}

\* the scoring rule the specification states: the factor weights, and the
\* contribution of a factor by its status (full, half, nothing)
weights == [imprint |-> 40, color |-> 20, generic |-> 15, shape |-> 10,
            source |-> 15]
RECURSIVE SumOver(_, _)
SumOver(S, g) ==
  IF S = {} THEN 0
  ELSE LET k == CHOOSE x \in S : TRUE IN g[k] + SumOver(S \ {k}, g)
\* twice the contribution, so that a half stays an integer
twiceContribution(k, status) ==
  IF status = "match" THEN 2 * weights[k]
  ELSE IF status = "omission" THEN weights[k]
  ELSE 0
\* Math.round of the sum of the contributions
scoreOf(status) ==
  (SumOver(CoreKeys, [k \in CoreKeys |-> twiceContribution(k, status[k])]) + 1)
    \div 2
verdictOf(score) ==
  IF score > 85 THEN "Authentic"
  ELSE IF score > 65 THEN "Inconclusive"
  ELSE "Counterfeit Risk"
\* the statuses of a returned result; its source factor has a match flag only
statusesOf(coreResults, sourceStatus) ==
  [k \in CoreKeys |-> IF k = "source" THEN sourceStatus
                      ELSE coreResults[k].status]

\* C18: the five factor weights sum to 100 and the score of every returned
\* success result is an integer from 0 to 100.
C18_ScoreInRange ==
  /\ SumOver(CoreKeys, weights) = 100
  /\ Succeeded => flowResult.value.score \in 0..100

\* C19: the verdict of a returned success result is determined by its score
\* alone -- Authentic iff score > 85, Inconclusive iff 65 < score <= 85,
\* Counterfeit Risk iff score <= 65.
C19_VerdictFromScore ==
  Succeeded => flowResult.value.verdict = verdictOf(flowResult.value.score)

\* C20: the score of a returned success result is the rounded sum of the
\* contributions of its five factors (match the full weight, omission half,
\* conflict nothing) -- so 100 when all match, and 60 with Counterfeit Risk
\* when the imprint conflicts and the others match.
C20_ScoreIsWeightedSum ==
  Succeeded
    => \E sourceStatus \in Statuses :
         /\ (sourceStatus = "match")
              = flowResult.value.coreResults["source"].match
         /\ flowResult.value.score =
              scoreOf(statusesOf(flowResult.value.coreResults, sourceStatus))

\* C21: the source-reliability factor of a returned success result is a
\* function of its reference set -- it is a match exactly when at least one
\* tier-1 reference is present (with references of other tiers only it is an
\* omission, with no reference a conflict: no match in both cases).
C21_SourceFactorFromReferences ==
  Succeeded
    => (flowResult.value.coreResults["source"].match
          = (\E i \in 1..Len(flowResult.value.sources) :
               flowResult.value.sources[i].tier = 1))

\* what the scheduling of the browser guarantees: the clock moves on and a
\* timer that is due fires.  Nothing guarantees that a call of
\* forensicAnalysisFlow ever settles (RunFinally): no stage has a timeout.
SpecLive ==
  /\ Init
  /\ [][Next]_vars
  /\ WF_vars(Advance)
  /\ WF_vars(ResultsDwell)
  /\ WF_vars(CooldownTick)

\* C22: every run terminates -- a dispatched run eventually reaches its end,
\* so the controller eventually leaves the analyzing state.
C22_EveryRunTerminates ==
  (state = "analyzing" /\ Len(runs) > 0) ~> (state # "analyzing")

\* the controller and one call of the Orchestrator side by side: a behaviour
\* is a behaviour of the hook (no call followed) or the course of one call
\* of forensicAnalysisFlow (the hook left in its initial state)
NextBoth ==
  \/ FlowIdle /\ env = Keys /\ Next
  \/ last.op = "init" /\ NextFlow

SpecBoth == InitFlow /\ [][NextBoth]_vars

\* how far a call of forensicAnalysisFlow has come
PcRank == [idle |-> 0, agentA |-> 1, parallel |-> 2, synthesis |-> 3,
           returned |-> 4]

\* C23: nothing is retried -- within one run each stage (extract, research,
\* inspect, synthesis) is invoked at most once and the flow never goes back
\* to an earlier stage; and the controller never puts an image back: the
\* queue grows by an accepted submit only, and every dispatch takes one image
\* off it, so an image of a failed run is dispatched again only when it is
\* submitted again.
C23_NoAutoRetry ==
  /\ [](\A e \in {"A", "B", "C", "S"} : Count(e) <= 1)
  /\ [][PcRank[pc'] >= PcRank[pc]]_vars
  /\ [][(last'.op \notin Submits \/ ~last'.accepted)
          => IsSuffix(imageQueue', imageQueue)]_vars
  /\ [][last'.dispatched # NoImage
          => Len(imageQueue') =
               Len(IF last'.op \in Submits THEN submitted'
                   ELSE imageQueue) - 1]_vars

\* the run of the first of two submitted images failed by a throw and only
\* the second image is left in the queue
C23_Witness ==
  /\ last.op = "runFinally"
  /\ error # NoError
  /\ submitted = <<"a", "b">>
  /\ imageQueue = <<"b">>
  /\ state = "results"
  /\ runs = <<>>

\* the reasons an extraction failure is reported with
ExtractionFailures ==
  {"Missing GEMINI_API_KEY_A.",
   "Agent A (Vision OCR) failed: Agent A failed to extract metadata.",
   "Agent A (Vision OCR) failed: generate"}

MissingCredential ==
  \/ "GROQ_API_KEY" \notin env
  \/ "EXA_API_KEY" \notin env
  \/ \E k \in {"GEMINI_API_KEY_A", "GEMINI_API_KEY_B", "GEMINI_API_KEY_C"} :
       ~geminiKey(k)
\* a request to an external service has been sent in this run
ServiceCalled ==
  \/ pc \in {"agentA", "synthesis"}
  \/ Index("A.ok") # 0
  \/ agentB.state = "pending"
  \/ agentC.state = "pending"

\* C25: a missing credential is detected eagerly -- when any required key is
\* missing, no request to an external service is made in that run.
C25_EagerCredentialCheck == MissingCredential => ~ServiceCalled

\* C26: a visual quality score outside 0..100 written by the vision model is
\* clamped into 0..100 and the inspection succeeds -- the inspection never
\* hands on a score outside the range and never fails because of one.
C26_QualityScoreClamped ==
  /\ agentC.state = "fulfilled" => agentC.value.qualityScore \in 0..100
  /\ agentC.state = "rejected"
       => agentC.reason # "Agent C (Forensic) failed: Schema validation failed"

\* C27: the research tells its two failures apart -- when the retrieval
\* returns no document the interpretation is not run on the empty set (the
\* research fails with a no-documents reason, so it never succeeds without a
\* source), and a missing or malformed interpretation fails with another
\* reason.
C27_ResearchFailureKinds ==
  /\ ~(/\ agentB.state = "pending"
       /\ agentB.at = "generate"
       /\ agentB.results = <<>>)
  /\ agentB.state = "fulfilled" => agentB.value.rawSources # <<>>

C29_ResultsDwell ==
  [][state = "results"
       => /\ isProcessing
          /\ last'.dispatched = NoImage
          /\ state' = "cooldown" => last'.op = "resultsDwell"]_vars

\* C30: the CooldownWindow survives a reload and every dispatch consults it
\* -- a reload leaves the controller idle with an empty queue and a free lock
\* and keeps the stored end time; no run is dispatched while now is before
\* the stored end time; and the stored end time is removed only by the
\* cooldown interval that finds it expired or by restart.
C30_CooldownWindowDurable ==
  /\ [][last'.op = "reload"
          => /\ (storage' = NoItem) <=> (storage = NoItem)
             /\ parseIntOr0(storage') = cooldownEnd
             /\ state' = "idle"
             /\ imageQueue' = <<>>
             /\ ~isProcessing']_vars
  /\ [][last'.dispatched # NoImage => now' >= cooldownEnd]_vars
  /\ [][(storage # NoItem /\ storage' = NoItem)
          => \/ last'.op = "restart"
             \/ last'.op = "cooldownTick" /\ now' >= cooldownEnd]_vars

\* under a window stored before the page was loaded again, a submit from
\* idle is held back: the controller goes to cooldown with the image queued
C30_Witness ==
  /\ last.op \in Submits
  /\ last.accepted
  /\ last.from = "idle"
  /\ last.dispatched = NoImage
  /\ state = "cooldown"
  /\ imageQueue # <<>>
  /\ runs = <<>>
  /\ now < cooldownEnd

\* C31: the lock (isProcessingRef) is held exactly when the state is
\* analyzing or results; in idle, scanning and cooldown it is free, after
\* any sequence of operations.
C31_LockIffAnalyzingOrResults ==
  isProcessing <=> state \in {"analyzing", "results"}

\* the clock of the runs without restart and reload: it is followed long
\* enough for two runs with their dwell and cooldown
AdvanceLive ==
  /\ now < MaxLiveTime
  /\ now' = now + ClockStep
  /\ last' = [op |-> "advance", n |-> 0, accepted |-> FALSE,
              dispatched |-> NoImage, from |-> state, stale |-> FALSE,
              repeat |-> FALSE]
  /\ UNCHANGED <<state, analysisResult, error, imageQueue, cooldownTime,
                 isProcessing, storage, runs, resultsTimer, cooldownTimer,
                 submitted, lastDone, abandoned>>
  /\ UNCHANGED flowVars

\* the controller when restart is not called and the page is not reloaded
NextRun ==
  \/ StartScan
  \/ HandleImageCapture
  \/ HandleMultipleImages
  \/ RunFinally
  \/ ResultsDwell
  \/ CooldownTick
  \/ AdvanceLive

\* every run terminates, time passes and the timers fire
SpecRun ==
  /\ Init
  /\ [][NextRun]_vars
  /\ WF_vars(AdvanceLive)
  /\ WF_vars(RunFinally)
  /\ WF_vars(ResultsDwell)
  /\ WF_vars(CooldownTick)

\* a submit has just been accepted
JustSubmitted == last.op \in Submits /\ last.accepted

\* the controller is at rest
AtRest ==
  /\ state = "idle"
  /\ imageQueue = <<>>
  /\ ~isProcessing
  /\ storage = NoItem
  /\ runs = <<>>

\* the controller waits for a timer to fall due at the end of the time the
\* model follows
HorizonReached == now >= MaxLiveTime /\ state \in {"results", "cooldown"}

\* C32 (liveness): when every run terminates, the timers fire and neither
\* restart nor a reload occurs, after an accepted submit of a list of images
\* every image of the list is eventually dispatched -- an image leaves the
\* queue only as the head that is dispatched, and the queue is eventually
\* empty -- and the controller eventually is idle with an empty queue, a
\* free lock and no stored cooldown end, within the time the model follows.
C32_SubmittedImagesAllRun ==
  /\ [][(imageQueue # <<>> /\ imageQueue' # imageQueue)
          => /\ last'.dispatched = Head(imageQueue)
             /\ imageQueue' = Tail(imageQueue)]_vars
  /\ JustSubmitted ~> (AtRest \/ HorizonReached)

\* two submitted images have both run, each with its dwell and cooldown, and
\* the controller is at rest again
C32_Witness ==
  /\ AtRest
  /\ submitted = <<"a", "b">>
  /\ last.op = "cooldownTick"
  /\ lastDone.at >= 3 * ClockStep

\* the queue a step's dispatch decision sees: the submitted list when the
\* step is an accepted submit, the queue before the step otherwise
QueueSeen ==
  IF last'.op \in Submits /\ last'.accepted THEN submitted' ELSE imageQueue

\* C33: no request is lost or duplicated -- every dispatch takes the head of
\* the queue and shortens the queue by exactly one, so each accepted image is
\* dispatched at most once; an image leaves the queue only by being
\* dispatched or by an accepted restart or startScan clearing the queue; and
\* an accepted submit never drops images that are already queued.
C33_NoLossNoDuplication ==
  [][/\ last'.dispatched # NoImage
          => /\ QueueSeen # <<>>
             /\ last'.dispatched = Head(QueueSeen)
             /\ imageQueue' = Tail(QueueSeen)
     /\ (last'.dispatched = NoImage /\ imageQueue' # QueueSeen)
          => /\ last'.op \in {"restart", "startScan"}
             /\ last'.accepted
     /\ (last'.op \in Submits /\ last'.accepted)
          => IsSuffix(imageQueue, submitted')]_vars

\* the result the hook returns: analysisResult unless it carries a failure
forensicResult ==
  IF analysisResult # Null /\ ~analysisResult.analysisError
  THEN analysisResult ELSE Null

\* medicineInfo.error: the failure of the result, else the error state
medicineInfoError ==
  IF analysisResult # Null
  THEN (IF analysisResult.analysisError THEN "analysisError" ELSE error)
  ELSE error

\* C34: the previous result and error are cleared at every dispatch, so in
\* analyzing both are null; and the completion of a run, which enters
\* results, leaves exactly one of them set, and it is the outcome of the run
\* that has just completed.
C34_ResultAndErrorOfCurrentRun ==
  [][/\ last'.dispatched # NoImage
          => analysisResult' = Null /\ error' = NoError
     /\ state' = "analyzing"
          => analysisResult' = Null /\ error' = NoError
     /\ last'.op = "runFinally"
          => /\ state' = "results"
             /\ (forensicResult' # Null) # (medicineInfoError' # NoError)
             /\ analysisResult' # Null
                  => \E i \in 1..Len(runs) :
                       /\ runs[i] = analysisResult'.image
                       /\ runs' = RemoveAt(runs, i)]_vars

\* C35: a rejected operation changes nothing -- when startScan or a submit is
\* called with the lock held or in the cooldown state, or a submit is called
\* with an empty list, the state, the queue, the result, the error, the lock
\* and the stored cooldown end are all as they were.
C35_RejectedChangesNothing ==
  [][(/\ last'.op \in Submits \cup {"startScan"}
      /\ \/ isProcessing
         \/ state = "cooldown"
         \/ last'.op = "handleMultipleImages" /\ last'.n = 0)
       => /\ ~last'.accepted
          /\ state' = state
          /\ imageQueue' = imageQueue
          /\ analysisResult' = analysisResult
          /\ error' = error
          /\ isProcessing' = isProcessing
          /\ (storage' = NoItem) <=> (storage = NoItem)
          /\ parseIntOr0(storage') = cooldownEnd]_vars

\* startScan was called while the results of a run were shown under the
\* lock, and was rejected
C35_Witness ==
  /\ last.op = "startScan"
  /\ ~last.accepted
  /\ last.from = "results"
  /\ state = "results"
  /\ isProcessing
  /\ analysisResult # Null
  /\ storage # NoItem
====
